---- MODULE Spec2Model ----
(***************************************************************************)
(* A model of core/solver.py: the batch assembler pack_collate_fn, the     *)
(* per-timestep loop of CaptioningSolver._train, and the event-driven      *)
(* orchestration of training, evaluation and checkpointing.                *)
(*                                                                         *)
(* Two specifications share the module:                                    *)
(*   SpecBatch  one batch through pack_collate_fn and the _train loop;     *)
(*   Spec       the solver's life: construction, train(), test(), the      *)
(*              ignite event handlers, checkpoints on disk, restarts.      *)
(***************************************************************************)
EXTENDS Integers, Sequences, FiniteSets, TLC

(***************************************************************************)
(* The reserved vocabulary ids self._null, self._start, self._end, with    *)
(* the values of the vocabulary {<NULL>:0, <START>:1, <END>:2, cat:3,      *)
(* sat:4}; 3 and 4 are the two ordinary words.                             *)
(***************************************************************************)
NULL == 0
START == 1
END == 2

(***************************************************************************)
(* Bounds of the batch model.                                              *)
(***************************************************************************)
MaxBatch == 3
MaxWords == 2

\* ---------------------------------------------------------------------------
\* Generic helpers (Python sequence semantics, 0-based half-open slices).
\* ---------------------------------------------------------------------------
Min(a, b) == IF a <= b THEN a ELSE b

Max(a, b) == IF a >= b THEN a ELSE b

\* s[a:b] of Python: clamped to the sequence, empty when a >= b.
Slice(s, a, b) == SubSeq(s, Max(a, 0) + 1, Min(b, Len(s)))

RECURSIVE Sum(_)
Sum(s) == IF s = << >> THEN 0 ELSE Head(s) + Sum(Tail(s))

RECURSIVE Concat(_)
Concat(ss) == IF ss = << >> THEN << >> ELSE Head(ss) \o Concat(Tail(ss))

\* ---------------------------------------------------------------------------
\* Inputs of the batch model: token sequences and raw batches.
\* ---------------------------------------------------------------------------
Words == {3, 4}

Other(w) == IF w = 3 THEN 4 ELSE 3

\* n words alternating from w.
Middle(n, w) == [p \in 1..n |-> IF p % 2 = 1 THEN w ELSE Other(w)]

\* <START> alone (length 1), or <START> words <END>.
CapVecs == {<<START>>} \cup
           {<<START>> \o Middle(n, w) \o <<END>> : n \in 0..MaxWords, w \in Words}

\* A raw example: the feature and the caption text are identified by the
\* example's position in the batch handed to the collate function.
Example(k, v) == [feature |-> k, cap_vec |-> v, caption |-> k]

Batches == UNION {{[k \in 1..n |-> Example(k, f[k])] : f \in [1..n -> CapVecs]} :
                  n \in 1..MaxBatch}

\* ids the argmax of a logits row is drawn from
PredIds == {END, 3}

\* ---------------------------------------------------------------------------
\* pack_collate_fn (solver.py 15-26)
\* ---------------------------------------------------------------------------
\* Insert index x into an index list ordered by descending key, after every
\* element whose key is >= key[x]: equal keys keep their arrival order.
RECURSIVE InsertDesc(_, _, _)
InsertDesc(sorted, x, key) ==
    IF sorted = << >> THEN <<x>>
    ELSE IF key[Head(sorted)] >= key[x]
         THEN <<Head(sorted)>> \o InsertDesc(Tail(sorted), x, key)
         ELSE <<x>> \o sorted

RECURSIVE StableSortDesc(_, _)
StableSortDesc(n, key) ==
    IF n = 0 THEN << >> ELSE InsertDesc(StableSortDesc(n - 1, key), n, key)

RECURSIVE InsertAsc(_, _, _)
InsertAsc(sorted, x, key) ==
    IF sorted = << >> THEN <<x>>
    ELSE IF key[Head(sorted)] <= key[x]
         THEN <<Head(sorted)>> \o InsertAsc(Tail(sorted), x, key)
         ELSE <<x>> \o sorted

RECURSIVE StableSortAsc(_, _)
StableSortAsc(n, key) ==
    IF n = 0 THEN << >> ELSE InsertAsc(StableSortAsc(n - 1, key), n, key)

Reverse(s) == [p \in 1..Len(s) |-> s[Len(s) + 1 - p]]

\* sorted(..., key=...)[::-1]: ascending stable sort, then reversed, so equal
\* lengths come out in reverse order.
len_sorted_idx_reversed(cap_vecs) ==
    Reverse(StableSortAsc(Len(cap_vecs), [k \in 1..Len(cap_vecs) |-> Len(cap_vecs[k])]))

\* sorted(range(len(cap_vecs)), key=lambda x: len(cap_vecs[x]), reverse=True):
\* a stable sort, so equal lengths keep their original relative order.
len_sorted_idx(cap_vecs) ==
    StableSortDesc(Len(cap_vecs), [k \in 1..Len(cap_vecs) |-> Len(cap_vecs[k])])

\* pad_sequence: every sequence padded with 0 to the longest one.
MaxLen(seqs) == IF seqs = << >> THEN 0
                ELSE CHOOSE m \in {Len(seqs[k]) : k \in 1..Len(seqs)} :
                        \A k \in 1..Len(seqs) : Len(seqs[k]) <= m

PadTo(s, m) == [p \in 1..m |-> IF p <= Len(s) THEN s[p] ELSE 0]

\* nn.utils.rnn.pack_sequence of sequences sorted by decreasing length:
\* batch_sizes[t] = number of sequences longer than t, and timestep t of the
\* data holds the t-th token of the first batch_sizes[t] rows of the padded
\* tensor.
pack_sequence(seqs) ==
    LET m      == MaxLen(seqs)
        padded == [k \in 1..Len(seqs) |-> PadTo(seqs[k], m)]
        sizes  == [t \in 1..m |-> Cardinality({k \in 1..Len(seqs) : Len(seqs[k]) >= t})]
        step(t) == [j \in 1..sizes[t] |-> padded[j][t]]
    IN  [data |-> Concat([t \in 1..m |-> step(t)]), batch_sizes |-> sizes]

pack_collate_fn(batch) ==
    LET cap_vecs   == [k \in 1..Len(batch) |-> batch[k].cap_vec]
        idx        == len_sorted_idx(cap_vecs)
        sorted_cvs == [p \in 1..Len(idx) |-> cap_vecs[idx[p]]]
    IN  [features |-> [p \in 1..Len(idx) |-> batch[idx[p]].feature],
         packed   |-> pack_sequence(sorted_cvs),
         captions |-> [p \in 1..Len(idx) |-> batch[idx[p]].caption],
         seq_lens |-> [p \in 1..Len(idx) |-> Len(sorted_cvs[p])]]

\* ---------------------------------------------------------------------------
\* State of the batch model: one raw batch, its collated form, and the locals
\* of CaptioningSolver._train while its timestep loop runs.
\* ---------------------------------------------------------------------------
\* State of the solver model.
VARIABLES
    pc,            \* where the process is
    restarted,     \* a second process has been started on the same disk
    cfg,           \* the keyword arguments of __init__
    optimizer,     \* "adam", "rmsprop" or "undefined" (attribute never set)
    weights,       \* model.state_dict()
    optim_state,   \* optimizer.state_dict()
    mode,          \* "train" or "eval" (model.train() / model.eval())
    start_iter,    \* self.start_iter
    engine,        \* train_engine.state
    tengine,       \* test_engine.state
    tcall,         \* the test() call in progress
    writer,        \* scalars given to the SummaryWriter
    disk,          \* the checkpoint directory: file name -> checkpoint
    val_artifact,  \* ./data/val/val.candidate.captions.json
    test_artifact, \* ./data/test/test.candidate.captions.json
    scores_file,   \* last write_scores call
    saved_at,      \* history: the state _save was called in, per file name
    saves,         \* history: the iterations this process called _save at
    evals,         \* history: the iterations this process ran a validation pass at
    prev_pass,     \* history: the last finished validation pass
    grads          \* the parameters' .grad: the iterations whose gradients it sums

ovars == <<pc, restarted, cfg, optimizer, weights, optim_state, mode, start_iter,
           engine, tengine, tcall, writer, disk, val_artifact, test_artifact,
           scores_file, saved_at, saves, evals, prev_pass, grads>>

VARIABLES batch, collated, bpc, loop_i, start_idx, hidden_rows, acc,
          loss_tokens, steps, result,
          alpha_c,       \* self.alpha_c
          alphas         \* the list alphas of _train

bvars == <<batch, collated, bpc, loop_i, start_idx, hidden_rows, acc,
           loss_tokens, steps, result, alpha_c, alphas>>

vars == <<bvars, ovars>>

NoBatch == [features |-> << >>, packed |-> [data |-> << >>, batch_sizes |-> << >>],
            captions |-> << >>, seq_lens |-> << >>]

\* no regulariser term was computed
NoReg == [padded |-> << >>, sum_loc_alphas |-> << >>, target |-> << >>]

NoResult == [status |-> "none", acc_num |-> 0, acc_den |-> 0, loss_div |-> 0,
             reg |-> NoReg]

\* values of the keyword argument alpha_c (line 56): off, and on
AlphaCs == {0, 1}

BInit ==
    /\ batch \in Batches
    /\ collated = NoBatch
    /\ bpc = "raw"
    /\ loop_i = 0
    /\ start_idx = 0
    /\ hidden_rows = 0
    /\ acc = 0
    /\ loss_tokens = 0
    /\ steps = << >>
    /\ result = NoResult
    /\ alpha_c \in AlphaCs
    /\ alphas = << >>

\* The DataLoader hands the raw batch to collate_fn=pack_collate_fn (line 64).
Collate ==
    /\ bpc = "raw"
    /\ collated' = pack_collate_fn(batch)
    /\ bpc' = "collated"
    /\ UNCHANGED <<batch, loop_i, start_idx, hidden_rows, acc, loss_tokens, steps, result,
                   alpha_c, alphas, ovars>>

\* _train up to the loop: unpack the batch, initial recurrent state for every
\* example, loss = 0, acc = 0., alphas = [], start_idx = 0 (lines 136-155).
TrainBegin ==
    /\ bpc = "collated"
    /\ hidden_rows' = Len(collated.features)
    /\ loop_i' = 0
    /\ start_idx' = 0
    /\ acc' = 0
    /\ loss_tokens' = 0
    /\ steps' = << >>
    /\ alphas' = << >>
    /\ bpc' = "loop"
    /\ UNCHANGED <<batch, collated, result, alpha_c, ovars>>

\* range(len(batch_sizes)): one pass too many.
NumTimesteps_whole_range(batch_sizes) == Len(batch_sizes)

\* range(len(batch_sizes)-1): the number of timesteps of the loop (line 156).
NumTimesteps(batch_sizes) == Len(batch_sizes) - 1

\* number of positions at which prediction and target agree
CountEqual(pred, target) ==
    Cardinality({j \in 1..Min(Len(pred), Len(target)) : pred[j] = target[j]})

\* number of targets the cross entropy does not ignore (ignore_index = <NULL>)
CountScored(target) == Cardinality({j \in 1..Len(target) : target[j] # NULL})

\* The attention weights the model returns at timestep i for the rows it was
\* given: one row per input row, in the same order.  A row is written as the
\* set of its terms, each naming the timestep and the example it belongs to,
\* so that a sum of rows is the union of their terms and a zero row is {}.
Alpha(feats, i) == [j \in 1..Len(feats) |-> {[timestep |-> i, example |-> feats[j]]}]

\* the tokens just fed in taken as targets: no shift to the next token
TargetSlice_not_shifted(cap_vecs, end_idx, next) ==
    Slice(cap_vecs, end_idx - next, end_idx)

\* cap_vecs[end_idx:end_idx+batch_sizes[i+1]] (lines 165-166)
TargetSlice(cap_vecs, end_idx, next) ==
    Slice(cap_vecs, end_idx, end_idx + next)

\* One pass of the loop body (lines 157-169), i = loop_i.
TrainTimestep ==
    /\ bpc = "loop"
    /\ loop_i < NumTimesteps(collated.packed.batch_sizes)
    /\ LET bs       == collated.packed.batch_sizes
           cap_vecs == collated.packed.data
           now      == IF loop_i + 1 <= Len(bs) THEN bs[loop_i + 1] ELSE 0
           next     == IF loop_i + 2 <= Len(bs) THEN bs[loop_i + 2] ELSE 0
           end_idx  == start_idx + now
           curr     == Slice(cap_vecs, start_idx, end_idx)
           feats    == Slice(collated.features, 0, now)
           hid      == Min(hidden_rows, now)
           target   == TargetSlice(cap_vecs, end_idx, next)
       IN  IF Len(curr) # Len(feats) \/ hid # Len(feats) \/ Len(target) # Min(next, Len(feats))
           THEN \* the model or the comparison rejects mismatched shapes
                /\ bpc' = "done"
                /\ result' = [NoResult EXCEPT !.status = "error"]
                /\ UNCHANGED <<loop_i, start_idx, hidden_rows, acc, loss_tokens, steps,
                               alphas>>
           ELSE \E pred \in [1..Len(feats) -> PredIds] :
                /\ acc' = acc + CountEqual(Slice(pred, 0, next), target)
                /\ loss_tokens' = loss_tokens + CountScored(target)
                /\ steps' = Append(steps, [rows |-> Len(feats), inputs |-> curr,
                                           targets |-> target, from |-> start_idx])
                /\ alphas' = Append(alphas, Alpha(feats, loop_i))
                /\ hidden_rows' = Len(feats)
                /\ start_idx' = end_idx
                /\ loop_i' = loop_i + 1
                /\ UNCHANGED <<bpc, result>>
    /\ UNCHANGED <<batch, collated, alpha_c, ovars>>

\* nn.utils.rnn.pad_sequence with batch_first=True: one row per list entry
pad_sequence_batch_first(sequences) ==
    LET max_len == MaxLen(sequences)
    IN  [t \in 1..Len(sequences) |->
           [j \in 1..max_len |-> IF j <= Len(sequences[t]) THEN sequences[t][j] ELSE {}]]

\* nn.utils.rnn.pad_sequence(alphas) (line 172): the list entries are laid
\* along the second dimension and padded with zeros along the first, so the
\* result is indexed [row j][list entry t].
pad_sequence(sequences) ==
    LET max_len == MaxLen(sequences)
    IN  [j \in 1..max_len |->
           [t \in 1..Len(sequences) |->
              IF j <= Len(sequences[t]) THEN sequences[t][j] ELSE {}]]

\* torch.sum(..., 1) of the padded tensor (line 172)
SumDim1(padded) ==
    [j \in 1..Len(padded) |-> UNION {padded[j][t] : t \in 1..Len(padded[j])}]

\* (seq_lens / self.model.L).repeat(1, self.model.L) (line 173): every
\* column of row j holds seq_lens[j] / L; the row is written as seq_lens[j]
AlphaTarget(seq_lens) == [j \in 1..Len(seq_lens) |-> seq_lens[j]]

\* the operands of alpha_criterion when self.alpha_c > 0 (lines 171-174)
Regulariser ==
    IF alpha_c > 0
    THEN [padded |-> pad_sequence(alphas),
          sum_loc_alphas |-> SumDim1(pad_sequence(alphas)),
          target |-> AlphaTarget(collated.seq_lens)]
    ELSE NoReg

\* torch.sum(batch_sizes[2:]): the first predicted timestep left out.
TotalPredictedTokens_from_2(batch_sizes) == Sum(Slice(batch_sizes, 2, Len(batch_sizes)))

\* torch.sum(batch_sizes[1:]): the accuracy's denominator (line 180).
TotalPredictedTokens(batch_sizes) == Sum(Slice(batch_sizes, 1, Len(batch_sizes)))

\* After the loop (lines 171-180): regulariser, loss /= batch_sizes[0],
\* backward, optimizer step, and the returned accuracy.  With no timestep
\* pad_sequence([]) raises (alpha_c > 0) or loss is still the number 0 and
\* backward fails; a zero denominator raises ZeroDivisionError.
TrainFinish ==
    /\ bpc = "loop"
    /\ loop_i >= NumTimesteps(collated.packed.batch_sizes)
    /\ LET bs    == collated.packed.batch_sizes
           total == TotalPredictedTokens(bs)
       IN  result' = IF steps = << >> \/ total = 0
                     THEN [NoResult EXCEPT !.status = "error"]
                     ELSE [status |-> "ok", acc_num |-> acc, acc_den |-> total,
                           loss_div |-> bs[1], reg |-> Regulariser]
    /\ bpc' = "done"
    /\ UNCHANGED <<batch, collated, loop_i, start_idx, hidden_rows, acc, loss_tokens, steps,
                   alpha_c, alphas, ovars>>

\* ===========================================================================
\* The solver: construction, train(), test(), the event handlers, and the
\* files it writes.
\* ===========================================================================
MaxEpochs == 2

\* the training set as the DataLoader batches it: len(train_loader) batches
TrainLoader == <<"b1", "b2">>

\* validation sets, as the batches of image ids the val_loader yields
ValSets == {<<<<1, 2>>, <<3>>>>}

\* held-out test sets handed to test(): none, or one batch of two examples
TestSets == {<< >>, <<<<5, 6>>>>}

UpdateRules == {"adam", "rmsprop", "sgd"}

Intervals == {2, 3}

Losses == {1, 2}

Metrics == {"Bleu_1", "CIDEr"}

\* checkpoint file names are iteration numbers; 0 stands for checkpoint=None
Paths == 1..(MaxEpochs * Len(TrainLoader))


NoFile == [exists |-> FALSE, captions |-> << >>]

NoScores == [set |-> FALSE, value |-> 0]

NoCfg == [update_rule |-> "adam", checkpoint |-> 0, eval_every |-> 2,
          snapshot_steps |-> 2, val |-> << >>, condition |-> "intact"]

NoEngine == [iteration |-> 0, epoch |-> 0, max_epochs |-> 0,
             output |-> [loss |-> 0, acc |-> 0], ran |-> FALSE]

NoTestEngine == [iteration |-> 0, epoch |-> 0, captions |-> << >>, scores |-> NoScores]

NoCall == [is_validation |-> FALSE, caller |-> "none", data |-> << >>,
           packed |-> FALSE, is_val |-> FALSE, scored |-> FALSE]

NoPass == [set |-> FALSE, weights |-> 0, data |-> << >>, captions |-> << >>,
           scores |-> NoScores]

NoScoresFile == [exists |-> FALSE, epoch |-> 0, iteration |-> 0, scores |-> NoScores]

\* the memory of a process that has not constructed its solver yet
FreshProcess ==
    /\ pc = "boot"
    /\ cfg = NoCfg
    /\ optimizer = "undefined"
    /\ weights = 0
    /\ optim_state = 0
    /\ mode = "train"
    /\ start_iter = 0
    /\ engine = NoEngine
    /\ tengine = NoTestEngine
    /\ tcall = NoCall
    /\ writer = {}
    /\ saves = {}
    /\ evals = << >>
    /\ prev_pass = NoPass
    /\ grads = {}

OInit ==
    /\ FreshProcess
    /\ restarted = FALSE
    /\ disk = << >>
    /\ val_artifact = NoFile
    /\ test_artifact = NoFile
    /\ scores_file = NoScoresFile
    /\ saved_at = << >>

\* the batch model at rest, for the solver's specification
BIdle ==
    /\ batch = << >>
    /\ collated = NoBatch
    /\ bpc = "idle"
    /\ loop_i = 0
    /\ start_idx = 0
    /\ hidden_rows = 0
    /\ acc = 0
    /\ loss_tokens = 0
    /\ steps = << >>
    /\ result = NoResult
    /\ alpha_c = 0
    /\ alphas = << >>

\* ---------------------------------------------------------------------------
\* __init__ (lines 29-95), _save (97-104), _load (106-110)
\* ---------------------------------------------------------------------------
\* lines 70-73: no else branch, so any other name leaves self.optimizer unset
MakeOptimizer(update_rule) ==
    IF update_rule = "adam" THEN "adam"
    ELSE IF update_rule = "rmsprop" THEN "rmsprop"
    ELSE "undefined"

\* state dicts taken before the optimizer step of the iteration being saved
Checkpoint_before_step(epoch, iteration, loss) ==
    [epoch |-> epoch, iteration |-> iteration, model_state_dict |-> weights - 1,
     optimizer_state_dict |-> optim_state - 1, loss |-> loss]

\* the file written by torch.save: named str(iteration) + '.pth'
Checkpoint(epoch, iteration, loss) ==
    [epoch |-> epoch, iteration |-> iteration, model_state_dict |-> weights,
     optimizer_state_dict |-> optim_state, loss |-> loss]

Put(files, name, content) ==
    [n \in (DOMAIN files) \cup {name} |-> IF n = name THEN content ELSE files[n]]

_save(epoch, iteration, loss) ==
    Put(disk, iteration, Checkpoint(epoch, iteration, loss))

\* load_state_dict on the model only; the optimizer keeps its fresh state
_load_model_only(checkpoint) ==
    [weights |-> checkpoint.model_state_dict,
     optim_state |-> optim_state,
     start_iter |-> checkpoint.iteration + 1]

\* what _load leaves in the solver, given the checkpoint torch.load returned
_load(checkpoint) ==
    [weights |-> checkpoint.model_state_dict,
     optim_state |-> checkpoint.optimizer_state_dict,
     start_iter |-> checkpoint.iteration + 1]

\* What can be found at the path given as `checkpoint`: a file this solver
\* wrote, or one torch.load cannot read, one whose model_state_dict or
\* optimizer_state_dict does not fit, or one without the 'iteration' key.
Conditions == {"intact", "unreadable", "model_rejected", "optimizer_rejected",
               "no_iteration"}

\* only a missing file raises; every later stage of _load is taken as passed
_load_error_missing_only(path, condition, opt) ==
    IF path \notin DOMAIN disk THEN "torch.load" ELSE "none"

\* The statement of _load (lines 107-110) that raises, "none" when all four
\* pass.  optimizer.load_state_dict also raises (AttributeError) when the
\* update rule left self.optimizer unset.
_load_error(path, condition, opt) ==
    IF path \notin DOMAIN disk \/ condition = "unreadable" THEN "torch.load"
    ELSE IF condition = "model_rejected" THEN "model.load_state_dict"
    ELSE IF opt = "undefined" \/ condition = "optimizer_rejected"
    THEN "optimizer.load_state_dict"
    ELSE IF condition = "no_iteration" THEN "checkpoint['iteration']"
    ELSE "none"

\* __init__.  _load is called without a try block (line 91), so whatever it
\* raises leaves __init__: the statements of _load before the raising one have
\* already acted on the model and the optimizer.  A rejected model_state_dict
\* may or may not have been copied in part before load_state_dict raises.
Construct ==
    /\ pc = "boot"
    /\ \E rule \in UpdateRules, path \in {0} \cup Paths, ee \in Intervals,
          ss \in Intervals, val \in ValSets,
          condition \in Conditions :
         LET err == _load_error(path, condition, MakeOptimizer(rule)) IN
         /\ path \notin DOMAIN disk => condition = "intact"
         /\ cfg' = [update_rule |-> rule, checkpoint |-> path, eval_every |-> ee,
                    snapshot_steps |-> ss, val |-> val, condition |-> condition]
         /\ optimizer' = MakeOptimizer(rule)
         /\ IF path = 0
            THEN /\ start_iter' = 1
                 /\ pc' = "idle"
                 /\ UNCHANGED <<weights, optim_state>>
            ELSE IF err = "torch.load"
            THEN /\ pc' = "ctor_failed"
                 /\ UNCHANGED <<weights, optim_state, start_iter>>
            ELSE IF err = "model.load_state_dict"
            THEN /\ weights' \in {weights, disk[path].model_state_dict}
                 /\ pc' = "ctor_failed"
                 /\ UNCHANGED <<optim_state, start_iter>>
            ELSE IF err = "optimizer.load_state_dict"
            THEN /\ weights' = disk[path].model_state_dict
                 /\ pc' = "ctor_failed"
                 /\ UNCHANGED <<optim_state, start_iter>>
            ELSE IF err = "checkpoint['iteration']"
            THEN /\ weights' = disk[path].model_state_dict
                 /\ optim_state' = disk[path].optimizer_state_dict
                 /\ pc' = "ctor_failed"
                 /\ UNCHANGED start_iter
            ELSE /\ weights' = _load(disk[path]).weights
                 /\ optim_state' = _load(disk[path]).optim_state
                 /\ start_iter' = _load(disk[path]).start_iter
                 /\ pc' = "idle"
    /\ writer' = {}
    /\ UNCHANGED <<restarted, grads, mode, engine, tengine, tcall, disk, val_artifact,
                   test_artifact, scores_file, saved_at, saves, evals, prev_pass, bvars>>

\* ---------------------------------------------------------------------------
\* train() and the training engine (lines 112-131, 136-138, 176-180, 204-205)
\* ---------------------------------------------------------------------------
\* train(num_epochs): Engine.run starts a state at iteration 0, epoch 0 and
\* fires STARTED; training_start_handler only assigns two locals.
CallTrain ==
    /\ pc = "idle"
    /\ ~engine.ran
    /\ \E num_epochs \in 1..MaxEpochs :
         engine' = [iteration |-> 0, epoch |-> 1, max_epochs |-> num_epochs,
                    output |-> [loss |-> 0, acc |-> 0], ran |-> TRUE]
    /\ pc' = "train_batch"
    /\ UNCHANGED <<restarted, grads, cfg, optimizer, weights, optim_state, mode, start_iter,
                   tengine, tcall, writer, disk, val_artifact, test_artifact,
                   scores_file, saved_at, saves, evals, prev_pass, bvars>>

\* optimizer.zero_grad() left out: the gradients stay as they were
zero_grad_skipped(g) == g

\* optimizer.zero_grad() (line 138)
zero_grad(g) == {}

\* loss.backward() (line 177) adds the gradient of this iteration's loss to
\* what the parameters' .grad holds
backward(g, iteration) == g \cup {iteration}

\* The engine takes the next batch, counts the iteration and calls _train:
\* model.train(), optimizer.zero_grad() (AttributeError when the optimizer was
\* never set), the loss, backward, optimizer.step().  Every optimizer step
\* leaves new parameters and new optimizer state: both are numbered.
TrainStep ==
    /\ pc = "train_batch"
    /\ mode' = "train"
    /\ IF optimizer = "undefined"
       THEN /\ engine' = [engine EXCEPT !.iteration = @ + 1]
            /\ pc' = "crashed"
            /\ UNCHANGED <<weights, optim_state, grads>>
       ELSE \E loss \in Losses :
            /\ engine' = [engine EXCEPT !.iteration = @ + 1,
                                        !.output = [loss |-> loss, acc |-> 1]]
            /\ grads' = backward(zero_grad(grads), engine.iteration + 1)
            /\ weights' = weights + 1
            /\ optim_state' = optim_state + 1
            /\ pc' = "iter_completed"
    /\ UNCHANGED <<restarted, cfg, optimizer, start_iter, tengine, tcall, writer, disk,
                   val_artifact, test_artifact, scores_file, saved_at, saves, evals, prev_pass, bvars>>

\* iteration % self.snapshot_steps == 0 put in the place of the evaluation test
EvalDue_on_snapshot_steps(iteration) == iteration % cfg.snapshot_steps = 0

\* line 125
EvalDue(iteration) == iteration % cfg.eval_every = 0

\* iteration % self.eval_every == 0 put in the place of the snapshot test
SnapshotDue_on_eval_every(iteration) == iteration % cfg.eval_every = 0

\* line 130
SnapshotDue(iteration) == iteration % cfg.snapshot_steps = 0

\* test(): a validation call runs the test engine on self.val_loader; any
\* other call builds a loader with collate_fn=pack_collate_fn (lines 207-213).
\* The EPOCH_COMPLETED handler was registered with the fixed argument True
\* (line 84), which is what it receives as is_val.
RegisteredIsVal == TRUE

StartTest(is_validation, caller, test_dataset) ==
    [is_validation |-> is_validation, caller |-> caller,
     data |-> IF is_validation THEN cfg.val ELSE test_dataset,
     packed |-> ~is_validation, is_val |-> RegisteredIsVal, scored |-> FALSE]

\* training_end_iter_handler up to the evaluation (lines 117-126)
TrainingEndIterLog ==
    /\ pc = "iter_completed"
    /\ writer' = writer \cup
         {[tag |-> "Loss", value |-> engine.output.loss, step |-> engine.iteration],
          [tag |-> "Accuracy", value |-> engine.output.acc, step |-> engine.iteration]}
    /\ IF EvalDue(engine.iteration)
       THEN /\ tcall' = StartTest(TRUE, "train", << >>)
            /\ tengine' = [tengine EXCEPT !.iteration = 0, !.epoch = 1]
            /\ evals' = Append(evals, engine.iteration)
            /\ pc' = "test_epoch_started"
       ELSE /\ pc' = "snapshot"
            /\ UNCHANGED <<tcall, tengine, evals>>
    /\ UNCHANGED <<restarted, grads, cfg, optimizer, weights, optim_state, mode, start_iter,
                   engine, disk, val_artifact, test_artifact, scores_file, saved_at,
                   saves, prev_pass, bvars>>

\* the rest of training_end_iter_handler (line 130-131), then the engine's
\* loop: next batch, next epoch, or the run is over.
TrainingEndIterSnapshot ==
    /\ pc = "snapshot"
    /\ IF SnapshotDue(engine.iteration)
       THEN /\ disk' = _save(engine.epoch, engine.iteration, engine.output.loss)
            /\ saved_at' = Put(saved_at, engine.iteration,
                               [weights |-> weights, optim_state |-> optim_state])
            /\ saves' = saves \cup {engine.iteration}
       ELSE UNCHANGED <<disk, saved_at, saves>>
    /\ IF engine.iteration < engine.epoch * Len(TrainLoader)
       THEN /\ pc' = "train_batch"
            /\ UNCHANGED engine
       ELSE IF engine.epoch < engine.max_epochs
       THEN /\ pc' = "train_batch"
            /\ engine' = [engine EXCEPT !.epoch = @ + 1]
       ELSE /\ pc' = "idle"
            /\ UNCHANGED engine
    /\ UNCHANGED <<restarted, grads, cfg, optimizer, weights, optim_state, mode, start_iter,
                   tengine, tcall, writer, val_artifact, test_artifact, scores_file,
                   evals, prev_pass, bvars>>

\* ---------------------------------------------------------------------------
\* test() and the test engine (lines 182-202, 207-213)
\* ---------------------------------------------------------------------------
\* the caption text the decoder and decode_captions give an image under the
\* current weights: a deterministic function of both
Caption(w, image_id) == <<w, image_id>>

\* the scorer: a function of the candidate captions file it reads
evaluate(artifact) ==
    [set |-> TRUE,
     value |-> Sum([j \in 1..Len(artifact.captions) |->
                      artifact.captions[j].caption[1] + artifact.captions[j].image_id])]

\* caption_scores.items(): one score per metric
Items(caption_scores) ==
    {[metric |-> m, score |-> IF m = "CIDEr" THEN caption_scores.value + 1
                              ELSE caption_scores.value] : m \in Metrics}

\* a start-of-epoch handler that leaves engine.state.captions as it finds it
testing_start_epoch_handler_no_reset(state) == state

\* lines 182-183
testing_start_epoch_handler(state) == [state EXCEPT !.captions = << >>]

\* lines 198-202: the entries of one batch appended in batch order
_test(state, image_ids) ==
    [state EXCEPT !.captions = @ \o [j \in 1..Len(image_ids) |->
         [image_id |-> image_ids[j], caption |-> Caption(weights, image_ids[j])]]]

\* test(test_dataset, is_validation) called by the user of the solver
CallTest ==
    /\ pc = "idle"
    /\ \E is_validation \in BOOLEAN, test_dataset \in TestSets :
         /\ is_validation => test_dataset = << >>
         /\ tcall' = StartTest(is_validation, "user", test_dataset)
    /\ tengine' = [tengine EXCEPT !.iteration = 0, !.epoch = 1]
    /\ pc' = "test_epoch_started"
    /\ UNCHANGED <<restarted, grads, cfg, optimizer, weights, optim_state, mode, start_iter,
                   engine, writer, disk, val_artifact, test_artifact, scores_file,
                   saved_at, saves, evals, prev_pass, bvars>>

\* EPOCH_STARTED of the test engine
TestingStartEpoch ==
    /\ pc = "test_epoch_started"
    /\ tengine' = testing_start_epoch_handler(tengine)
    /\ pc' = "test_run"
    /\ UNCHANGED <<restarted, grads, cfg, optimizer, weights, optim_state, mode, start_iter,
                   engine, tcall, writer, disk, val_artifact, test_artifact,
                   scores_file, saved_at, saves, evals, prev_pass, bvars>>

\* One batch through _test.  A batch collated by pack_collate_fn is a 4-tuple,
\* which `features, image_ids = batch` cannot unpack: ValueError.
TestStep ==
    /\ pc = "test_run"
    /\ tengine.iteration < Len(tcall.data)
    /\ mode' = "eval"
    /\ IF tcall.packed
       THEN /\ tengine' = [tengine EXCEPT !.iteration = @ + 1]
            /\ pc' = "crashed"
       ELSE /\ tengine' = [_test(tengine, tcall.data[tengine.iteration + 1])
                             EXCEPT !.iteration = @ + 1]
            /\ pc' = "test_run"
    /\ UNCHANGED <<restarted, grads, cfg, optimizer, weights, optim_state, start_iter,
                   engine, tcall, writer, disk, val_artifact, test_artifact,
                   scores_file, saved_at, saves, evals, prev_pass, bvars>>

\* EPOCH_COMPLETED of the test engine: testing_end_epoch_handler(engine, is_val)
\* (lines 185-194)
TestingEndEpoch ==
    /\ pc = "test_run"
    /\ tengine.iteration = Len(tcall.data)
    /\ IF tcall.is_val
       THEN LET file   == [exists |-> TRUE, captions |-> tengine.captions]
                scores == evaluate(file)
            IN  /\ val_artifact' = file
                /\ scores_file' = [exists |-> TRUE, epoch |-> tengine.epoch,
                                   iteration |-> tengine.iteration, scores |-> scores]
                /\ tengine' = [tengine EXCEPT !.scores = scores]
                /\ tcall' = [tcall EXCEPT !.scored = TRUE]
                /\ UNCHANGED test_artifact
       ELSE /\ test_artifact' = [exists |-> TRUE, captions |-> tengine.captions]
            /\ UNCHANGED <<val_artifact, scores_file, tengine, tcall>>
    /\ pc' = "test_completed"
    /\ UNCHANGED <<restarted, grads, cfg, optimizer, weights, optim_state, mode, start_iter,
                   engine, writer, disk, saved_at, saves, evals, prev_pass, bvars>>

ThisPass == [set |-> TRUE, weights |-> weights, data |-> tcall.data,
             captions |-> tengine.captions, scores |-> tengine.scores]

\* test() returns test_state.scores to training_end_iter_handler, which
\* records every metric against the training iteration (lines 126-128)
TrainingEndIterScores ==
    /\ pc = "test_completed"
    /\ tcall.caller = "train"
    /\ writer' = writer \cup
         {[tag |-> it.metric, value |-> it.score, step |-> engine.iteration] :
            it \in Items(tengine.scores)}
    /\ prev_pass' = ThisPass
    /\ pc' = "snapshot"
    /\ UNCHANGED <<restarted, grads, cfg, optimizer, weights, optim_state, mode, start_iter,
                   engine, tengine, tcall, disk, val_artifact, test_artifact,
                   scores_file, saved_at, saves, evals, bvars>>

\* test() returns to the user of the solver
TestReturn ==
    /\ pc = "test_completed"
    /\ tcall.caller = "user"
    /\ prev_pass' = IF tcall.is_validation THEN ThisPass ELSE prev_pass
    /\ pc' = "idle"
    /\ UNCHANGED <<restarted, grads, cfg, optimizer, weights, optim_state, mode, start_iter,
                   engine, tengine, tcall, writer, disk, val_artifact, test_artifact,
                   scores_file, saved_at, saves, evals, bvars>>

\* The process ends (finished, failed, or terminated between two training
\* iterations) and a new one is started on the same files.
Restart ==
    /\ pc \in {"idle", "crashed", "ctor_failed", "train_batch"}
    /\ ~restarted
    /\ restarted' = TRUE
    /\ pc' = "boot"
    /\ cfg' = NoCfg
    /\ optimizer' = "undefined"
    /\ weights' = 0
    /\ optim_state' = 0
    /\ mode' = "train"
    /\ start_iter' = 0
    /\ engine' = NoEngine
    /\ tengine' = NoTestEngine
    /\ tcall' = NoCall
    /\ writer' = {}
    /\ saves' = {}
    /\ evals' = << >>
    /\ prev_pass' = NoPass
    /\ grads' = {}
    /\ UNCHANGED <<disk, val_artifact, test_artifact, scores_file, saved_at, bvars>>

Init == OInit /\ BIdle

Next ==
    \/ Construct
    \/ CallTrain
    \/ TrainStep
    \/ TrainingEndIterLog
    \/ TrainingEndIterScores
    \/ TrainingEndIterSnapshot
    \/ CallTest
    \/ TestingStartEpoch
    \/ TestStep
    \/ TestingEndEpoch
    \/ TestReturn
    \/ Restart

Spec == Init /\ [][Next]_vars

BNext == Collate \/ TrainBegin \/ TrainTimestep \/ TrainFinish

InitBatch == BInit /\ OInit

SpecBatch == InitBatch /\ [][BNext]_vars

\* ===========================================================================
\* Properties of the batch model (checked under SpecBatch)
\* ===========================================================================
CapLen(k) == Len(batch[k].cap_vec)

LongestLen == CHOOSE m \in {CapLen(k) : k \in 1..Len(batch)} :
                 \A k \in 1..Len(batch) : CapLen(k) <= m

BatchSizes == collated.packed.batch_sizes

\* C1: for every non-empty batch of sequences of length >= 1, pack_collate_fn
\* returns features, caption texts and sequence lengths ordered by descending
\* token-sequence length with ties in their original relative order, and the
\* per-timestep active counts are non-increasing, start at the batch size,
\* are as many as the longest sequence is long, and count at timestep t the
\* examples longer than t.
C1_CollateSortedAndCounted ==
    bpc # "raw" =>
      LET n == Len(batch)
          f == collated.features
      IN  /\ Len(f) = n
          /\ {f[p] : p \in 1..n} = 1..n
          /\ \A p, q \in 1..n : p < q =>
                \/ CapLen(f[p]) > CapLen(f[q])
                \/ CapLen(f[p]) = CapLen(f[q]) /\ f[p] < f[q]
          /\ collated.captions = [p \in 1..n |-> batch[f[p]].caption]
          /\ collated.seq_lens = [p \in 1..n |-> CapLen(f[p])]
          /\ Len(BatchSizes) = LongestLen
          /\ BatchSizes[1] = n
          /\ \A t \in 1..(Len(BatchSizes) - 1) : BatchSizes[t] >= BatchSizes[t + 1]
          /\ \A t \in 1..Len(BatchSizes) :
                BatchSizes[t] = Cardinality({k \in 1..n : CapLen(k) > t - 1})

\* a collated batch that had to be reordered and holds a tie
C1_Witness ==
    /\ bpc = "collated"
    /\ \E k, l \in 1..Len(batch) : k < l /\ CapLen(k) < CapLen(l)
    /\ \E k, l \in 1..Len(batch) : k < l /\ CapLen(k) = CapLen(l)

\* The general part of C5: the loop makes len(stepActiveCounts)-1 passes,
\* pass t runs on the first stepActiveCounts[t] examples and scores the first
\* stepActiveCounts[t+1]; sequences of one length L give L-1 passes and
\* counts all equal to the batch size.
C5_General ==
    /\ bpc \in {"loop", "done"} =>
         /\ Len(steps) = loop_i
         /\ Len(steps) <= Len(BatchSizes) - 1
         /\ \A t \in 1..Len(steps) :
               /\ steps[t].rows = BatchSizes[t]
               /\ Len(steps[t].inputs) = BatchSizes[t]
               /\ Len(steps[t].targets) = BatchSizes[t + 1]
    /\ bpc = "done" =>
         /\ Len(steps) = Len(BatchSizes) - 1
         /\ Len(steps) = LongestLen - 1
         /\ (\A k \in 1..Len(batch) : CapLen(k) = LongestLen) =>
               \A t \in 1..Len(BatchSizes) : BatchSizes[t] = Len(batch)

Scenario == batch = <<Example(1, <<1, 3, 4, 2>>), Example(2, <<1, 3, 2>>)>>

\* C5 as stated: the general part, and for the sequences [1,3,4,2] and
\* [1,3,2] the counts [2,2,1], exactly 2 timesteps, the second scoring one
\* example.
C5_AsStated ==
    /\ C5_General
    /\ (Scenario /\ bpc = "done") =>
         /\ BatchSizes = <<2, 2, 1>>
         /\ Len(steps) = 2
         /\ Len(steps[2].targets) = 1

\* C5 (amended): the general part, and for the sequences [1,3,4,2] and
\* [1,3,2] the counts are [2,2,2,1], exactly 3 timesteps are performed, and
\* the third (last) timestep scores only 1 example.
C5_Amended ==
    /\ C5_General
    /\ (Scenario /\ bpc = "done") =>
         /\ BatchSizes = <<2, 2, 2, 1>>
         /\ Len(steps) = 3
         /\ Len(steps[1].targets) = 2
         /\ Len(steps[2].targets) = 2
         /\ Len(steps[3].targets) = 1

\* the scenario batch has been trained on
C5_Witness == Scenario /\ bpc = "done" /\ result.status = "ok"

AllAtLeastTwo == \A k \in 1..Len(batch) : CapLen(k) >= 2

\* C9: for a non-empty batch whose sequences all have length >= 2, the
\* denominator sum(stepActiveCounts[1:]) is positive, the correct predictions
\* counted never exceed it, and the returned accuracy is defined and in [0,1].
C9_AccuracyDefined ==
    AllAtLeastTwo =>
      /\ bpc # "raw" => TotalPredictedTokens(BatchSizes) > 0
      /\ bpc \in {"loop", "done"} =>
           /\ 0 <= acc
           /\ acc <= Sum(Slice(BatchSizes, 1, loop_i + 1))
      /\ bpc = "done" =>
           /\ result.status = "ok"
           /\ result.acc_den = Sum([t \in 1..Len(steps) |-> Len(steps[t].targets)])
           /\ result.acc_den > 0
           /\ 0 <= result.acc_num
           /\ result.acc_num <= result.acc_den

\* a finished step on sequences of differing lengths >= 2 with some but not
\* all predictions correct
C9_Witness ==
    /\ AllAtLeastTwo
    /\ bpc = "done"
    /\ \E k, l \in 1..Len(batch) : CapLen(k) # CapLen(l)
    /\ 0 < result.acc_num
    /\ result.acc_num < result.acc_den

\* ---------------------------------------------------------------------------
\* C13: teacher-forcing alignment in the packed buffer
\* ---------------------------------------------------------------------------
\* token t (from 1) of the example at sorted position j (from 1)
SortedToken(j, t) == batch[collated.features[j]].cap_vec[t]

\* C13: at every timestep t the loop has run, the input slice starts where
\* the counts of the earlier timesteps end and holds token t of the sorted
\* examples 1..batch_sizes[t] in order; the target slice holds token t+1 of
\* the sorted examples 1..batch_sizes[t+1] in order, so row j of the logits
\* meets the next token of example j; and input and target slice together end
\* within the packed buffer.  The loop never stops on a shape mismatch.
C13_TeacherForcingAligned ==
    bpc \in {"loop", "done"} =>
        LET bs == collated.packed.batch_sizes IN
        /\ Len(steps) <= Len(bs) - 1
        /\ \A t \in 1..Len(steps) :
             /\ steps[t].from = Sum(SubSeq(bs, 1, t - 1))
             /\ steps[t].inputs = [j \in 1..bs[t] |-> SortedToken(j, t)]
             /\ steps[t].targets = [j \in 1..bs[t + 1] |-> SortedToken(j, t + 1)]
             /\ steps[t].from + bs[t] + bs[t + 1] <= Len(collated.packed.data)
        /\ (bpc = "done" /\ result.status = "error") => Len(bs) <= 1

\* a batch given in ascending length with different words at the same
\* position, run to the end: the shorter caption drops out at the last step
C13_Witness ==
    /\ bpc = "done"
    /\ result.status = "ok"
    /\ batch = <<Example(1, <<START, 3, END>>), Example(2, <<START, 4, 3, END>>)>>
    /\ Len(steps) = 3
    /\ steps[2].targets = <<3, END>>
    /\ steps[3].targets = <<END>>

\* ---------------------------------------------------------------------------
\* C16: alignment of the attention records in the regulariser
\* ---------------------------------------------------------------------------
\* the timesteps (from 0) of the loop at which sorted position j (from 1) is
\* among the active rows
ActiveSteps(j) ==
    {t \in 0..(LongestLen - 2) : collated.packed.batch_sizes[t + 1] >= j}

\* C16: with alpha_c > 0, in a training step that ran to its end, the padded
\* attention tensor has one row per example and one column per timestep of
\* the loop; entry (j, t) is the attention of timestep t for the example at
\* sorted position j when j was active at t and zero otherwise; so the summed
\* row j holds exactly one term per timestep at which j was active, all of
\* them of example j, min(length_j, longest - 1) in number; and row j of the
\* target is the sequence length of that same example.
C16_AttentionRowsAligned ==
    (bpc = "done" /\ result.status = "ok" /\ alpha_c > 0) =>
        LET reg == result.reg
            n   == Len(batch)
        IN  /\ Len(reg.padded) = n
            /\ Len(reg.sum_loc_alphas) = n
            /\ Len(reg.target) = n
            /\ \A j \in 1..n :
                 LET k == collated.features[j] IN
                 /\ Len(reg.padded[j]) = LongestLen - 1
                 /\ \A t \in 0..(LongestLen - 2) :
                      reg.padded[j][t + 1] =
                         IF t \in ActiveSteps(j)
                         THEN {[timestep |-> t, example |-> k]}
                         ELSE {}
                 /\ reg.sum_loc_alphas[j] =
                      {[timestep |-> t, example |-> k] : t \in ActiveSteps(j)}
                 /\ Cardinality(reg.sum_loc_alphas[j]) = Min(CapLen(k), LongestLen - 1)
                 /\ reg.target[j] = CapLen(k)

\* a shorter caption given first and a longer one second, regulariser on: the
\* shorter one's row has a zero entry at the last timestep
C16_Witness ==
    /\ bpc = "done"
    /\ result.status = "ok"
    /\ alpha_c > 0
    /\ batch = <<Example(1, <<START, END>>), Example(2, <<START, 3, 4, END>>)>>
    /\ result.reg.padded[2][3] = {}
    /\ result.reg.sum_loc_alphas[2] = {[timestep |-> 0, example |-> 1],
                                       [timestep |-> 1, example |-> 1]}
    /\ result.reg.target = <<4, 2>>

\* ===========================================================================
\* Properties of the solver model (checked under Spec)
\* ===========================================================================
TestPcs == {"test_epoch_started", "test_run", "test_completed"}

\* the training iteration engine.iteration is still being worked on: its step
\* failed, or its Iteration-completed handler has not returned yet
InIteration ==
    \/ pc \in {"iter_completed", "snapshot"}
    \/ pc \in TestPcs /\ tcall.caller = "train"
    \/ pc = "crashed" /\ optimizer = "undefined"

\* the iterations whose Iteration-completed handler has returned
Completed == {i \in 1..engine.iteration : i < engine.iteration \/ ~InIteration}

\* the iterations whose handler is past its evaluation branch
PastEval == Completed \cup {i \in 1..engine.iteration : pc = "snapshot"}

\* C2: a run started from a checkpoint recorded at iteration k logs, tests
\* and names checkpoints with an iteration counter that starts at k+1
\* (self.start_iter), never below it.
C2_IterationStartsAtResumePoint ==
    /\ pc \in {"iter_completed", "snapshot"} => engine.iteration >= start_iter
    /\ \A r \in writer : r.step >= start_iter
    /\ \A i \in saves : i >= start_iter
    /\ \A j \in 1..Len(evals) : evals[j] >= start_iter

\* C3: save is invoked at the Iteration-completed event of iteration i if and
\* only if i is a multiple of snapshotSteps; the checkpoint is named i and
\* records iteration i and the loss of step i; in a run on an empty directory
\* the files are exactly those of the multiples reached so far.
C3_SnapshotSchedule ==
    /\ \A i \in Completed : (i \in saves) <=> (i % cfg.snapshot_steps = 0)
    /\ saves \subseteq 1..engine.iteration
    /\ \A i \in saves :
          /\ i \in DOMAIN disk
          /\ disk[i].iteration = i
          /\ \E r \in writer : r.tag = "Loss" /\ r.step = i /\ r.value = disk[i].loss
          /\ \A r \in writer : (r.tag = "Loss" /\ r.step = i) => r.value = disk[i].loss
    /\ ~restarted => DOMAIN disk = saves

\* snapshot_steps = 2: after iteration 4 the files 2 and 4 exist, and no file 3
C3_Witness ==
    /\ ~restarted
    /\ cfg.snapshot_steps = 2
    /\ cfg.eval_every = 3
    /\ pc = "idle"
    /\ engine.iteration = 4
    /\ DOMAIN disk = {2, 4}
    /\ disk[2].loss # disk[4].loss

MetricRecords == {r \in writer : r.tag \in Metrics}

\* C4: the validation pass is invoked at the Iteration-completed event of
\* iteration i if and only if i is a multiple of evalEvery, once per such
\* iteration, and every metric it produces is recorded once, against i.
C4_EvaluationSchedule ==
    /\ \A j \in 1..Len(evals) : evals[j] % cfg.eval_every = 0
    /\ \A j, k \in 1..Len(evals) : j < k => evals[j] < evals[k]
    /\ \A i \in 1..engine.iteration :
          (i % cfg.eval_every = 0 /\ (i < engine.iteration \/ pc # "iter_completed"
                                      \/ ~InIteration))
             => \E j \in 1..Len(evals) : evals[j] = i
    /\ \A j \in 1..Len(evals) : evals[j] <= engine.iteration
    /\ \A r \in MetricRecords : \E j \in 1..Len(evals) : evals[j] = r.step
    /\ \A i \in PastEval :
          \A m \in Metrics :
             Cardinality({r \in MetricRecords : r.tag = m /\ r.step = i})
                = IF i % cfg.eval_every = 0 THEN 1 ELSE 0
    /\ (pc = "snapshot" /\ engine.iteration % cfg.eval_every = 0) =>
          \A it \in Items(prev_pass.scores) :
             [tag |-> it.metric, value |-> it.score, step |-> engine.iteration] \in writer

\* eval_every = 3: one validation pass in iterations 1..3, at 3, its metrics
\* recorded against 3
C4_Witness ==
    /\ cfg.eval_every = 3
    /\ cfg.snapshot_steps = 2
    /\ pc = "snapshot"
    /\ engine.iteration = 3
    /\ evals = <<3>>
    /\ {r.step : r \in MetricRecords} = {3}

\* the solver was constructed from a checkpoint and has not trained since
JustLoaded == pc = "idle" /\ cfg.checkpoint # 0 /\ ~engine.ran

\* C6: a checkpoint holds the model weights and optimizer state of the moment
\* it was saved, and loading it restores exactly those, whatever steps were
\* trained after the save, with startIteration = its iteration + 1.
C6_CheckpointRoundTrip ==
    /\ \A n \in DOMAIN disk :
          /\ n \in DOMAIN saved_at
          /\ disk[n].model_state_dict = saved_at[n].weights
          /\ disk[n].optimizer_state_dict = saved_at[n].optim_state
          /\ disk[n].iteration = n
    /\ JustLoaded =>
          /\ cfg.checkpoint \in DOMAIN saved_at
          /\ weights = saved_at[cfg.checkpoint].weights
          /\ optim_state = saved_at[cfg.checkpoint].optim_state
          /\ start_iter = cfg.checkpoint + 1

\* a checkpoint loaded after the saving run had trained on past it
C6_Witness ==
    /\ JustLoaded
    /\ \E n \in DOMAIN disk :
          /\ n > cfg.checkpoint
          /\ disk[n].model_state_dict # weights

\* C7: a finished pass over a held-out test split (is_validation false) is
\* only persisted to the test artifact and not scored; scoring and the
\* validation artifact belong to validation passes only.
C7_TestSplitOnlyPersisted ==
    /\ (pc = "test_completed" /\ ~tcall.is_validation) =>
          /\ ~tcall.scored
          /\ test_artifact = [exists |-> TRUE, captions |-> tengine.captions]
    /\ (pc \in TestPcs /\ tcall.scored) => tcall.is_validation

\* C8: an optimizer name other than adam or rmsprop makes construction fail,
\* and no training iteration starts with an undefined optimizer.
C8_UnsupportedOptimizerFatal ==
    /\ (pc # "boot" /\ cfg.update_rule \notin {"adam", "rmsprop"}) => pc = "ctor_failed"
    /\ engine.iteration > 0 => optimizer # "undefined"

\* C10: the set finalized at the end of a pass holds exactly one entry per
\* example of that pass, in input order, captioned under the current weights,
\* with nothing from an earlier pass; a validation pass repeated on the same
\* set with the same weights gives the same captions and the same scores.
C10_EvaluationIdempotent ==
    pc = "test_completed" =>
      LET ids == Concat(tcall.data)
      IN  /\ Len(tengine.captions) = Len(ids)
          /\ \A j \in 1..Len(ids) :
                /\ tengine.captions[j].image_id = ids[j]
                /\ tengine.captions[j].caption = Caption(weights, ids[j])
          /\ val_artifact.captions = tengine.captions
          /\ (prev_pass.set /\ prev_pass.weights = weights /\ prev_pass.data = tcall.data)
                => /\ tengine.captions = prev_pass.captions
                   /\ tengine.scores = prev_pass.scores

\* a second validation pass finished with the weights of the one before it
C10_Witness ==
    /\ pc = "test_completed"
    /\ tcall.is_validation
    /\ prev_pass.set
    /\ prev_pass.weights = weights
    /\ prev_pass.data = tcall.data
    /\ Len(tengine.captions) = 3
    /\ weights > 0

\* ---------------------------------------------------------------------------
\* C11: a failed checkpoint load aborts construction
\* ---------------------------------------------------------------------------
\* the constructor was given a checkpoint path and some stage of loading it
\* cannot succeed: the file is missing or unreadable, its model or optimizer
\* state does not fit, there is no optimizer to load into, or it has no
\* 'iteration' entry
LoadFails ==
    /\ cfg.checkpoint # 0
    /\ \/ cfg.checkpoint \notin DOMAIN disk
       \/ cfg.condition # "intact"
       \/ cfg.update_rule \notin {"adam", "rmsprop"}

\* C11: whenever a checkpoint path was supplied and loading it fails at any
\* stage, the constructor has ended in an error: there is no solver, no start
\* iteration was set (neither the restored one nor 1), no log writer was
\* opened, and the training engine has not run an iteration.
C11_LoadFailureAborts ==
    (pc # "boot" /\ LoadFails) =>
        /\ pc = "ctor_failed"
        /\ start_iter = 0
        /\ engine = NoEngine
        /\ tengine = NoTestEngine
        /\ writer = {}

\* the load failed at its last stage, after the weights and the optimizer
\* state of an earlier run's checkpoint had already been restored
C11_Witness ==
    /\ pc = "ctor_failed"
    /\ cfg.condition = "no_iteration"
    /\ cfg.checkpoint \in DOMAIN disk
    /\ weights = disk[cfg.checkpoint].model_state_dict
    /\ weights > 0
    /\ optim_state > 0

\* ---------------------------------------------------------------------------
\* C12: termination of training runs and evaluation passes
\* ---------------------------------------------------------------------------
\* train() has been called in this process and control is no longer inside it
TrainingOver ==
    /\ engine.ran
    /\ pc \notin {"train_batch", "iter_completed", "snapshot"}
    /\ ~(pc \in TestPcs /\ tcall.caller = "train")

\* the test engine has been run and is no longer iterating
PassOver ==
    /\ tcall # NoCall
    /\ pc \notin {"test_epoch_started", "test_run"}

RECURSIVE Images(_)
Images(data) == IF data = << >> THEN 0 ELSE Len(Head(data)) + Images(Tail(data))

\* C12: a training run that has ended has run exactly max_epochs times the
\* number of batches of the training loader, and an evaluation pass that has
\* ended has gone through every batch of its input set once, leaving one
\* caption for each of its images.
C12_RunsEndAfterFullPasses ==
    /\ TrainingOver => engine.iteration = engine.max_epochs * Len(TrainLoader)
    /\ PassOver => /\ tengine.iteration = Len(tcall.data)
                   /\ Len(tengine.captions) = Images(tcall.data)

\* ---------------------------------------------------------------------------
\* C14: checkpoint files are not overwritten
\* ---------------------------------------------------------------------------
\* the Iteration-completed handler is about to call _save
AboutToSave == pc = "snapshot" /\ SnapshotDue(engine.iteration)

\* C14: a save never writes under a file name that is already in the
\* checkpoint directory.  Stated for the case the claim spells out, a run
\* that was resumed from a checkpoint of an earlier run: when it is about to
\* save, no file of the name it will write to exists yet.
C14_ResumedRunNeverOverwrites ==
    (AboutToSave /\ cfg.checkpoint # 0) => engine.iteration \notin DOMAIN disk

\* ---------------------------------------------------------------------------
\* C15: evaluation and checkpointing sit between completed training steps
\* ---------------------------------------------------------------------------
\* control is inside the Iteration-completed handler of engine.iteration or
\* inside a pass of the test engine
BetweenSteps == pc \in {"iter_completed", "snapshot"} \cup TestPcs

C15_Positions ==
    /\ (pc \in TestPcs /\ tcall.caller = "train") =>
          /\ evals # << >>
          /\ evals[Len(evals)] = engine.iteration
    /\ pc = "train_batch" =>
          \A j \in 1..Len(evals) : \A m \in Metrics :
             \E r \in writer : r.tag = m /\ r.step = evals[j]
    /\ engine.iteration \in saves =>
          /\ disk[engine.iteration].iteration = engine.iteration
          /\ disk[engine.iteration].model_state_dict = weights
          /\ disk[engine.iteration].optimizer_state_dict = optim_state

C15_Steps ==
    /\ BetweenSteps => /\ weights' = weights
                       /\ optim_state' = optim_state
                       /\ optimizer' = optimizer
                       /\ engine'.iteration = engine.iteration
    /\ (pc' = "iter_completed" /\ pc # "iter_completed") =>
          /\ pc = "train_batch"
          /\ engine'.iteration = engine.iteration + 1
          /\ optim_state' = optim_state + 1
          /\ weights' # weights
    /\ (pc' = "test_epoch_started" /\ tcall'.caller = "train") =>
          /\ pc = "iter_completed"
          /\ tengine'.iteration = 0
    /\ (pc = "test_run" /\ pc' = "test_completed") =>
          /\ tengine.iteration = Len(tcall.data)
          /\ Len(tengine.captions) = Images(tcall.data)

\* C15: a validation pass is started by training only from the end of a step
\* whose optimizer update is done, runs while the engine's iteration is that
\* step's, and ends after every batch of its set; when the next training step
\* can begin, every pass triggered so far has its metrics recorded; from the
\* end of a step until the handler returns, and during every pass of the test
\* engine, no step changes the weights, the optimizer state or the iteration
\* count; and the checkpoint named i holds the weights and optimizer state
\* that are current as long as the iteration count is i.
C15_EvaluationBetweenSteps == [](C15_Positions) /\ [][C15_Steps]_vars

\* iteration 2 was evaluated and then saved, and the next step can begin
C15_Witness ==
    /\ pc = "train_batch"
    /\ engine.iteration = 2
    /\ evals = <<2>>
    /\ saves = {2}
    /\ disk[2].model_state_dict = weights
    /\ \E r \in writer : r.tag \in Metrics /\ r.step = 2

\* ---------------------------------------------------------------------------
\* C17: training mode and cleared gradients at every training step
\* ---------------------------------------------------------------------------
\* a validation pass ran at the iteration before the current one
StepAfterEvaluation ==
    /\ evals # << >>
    /\ evals[Len(evals)] = engine.iteration - 1

\* C17: when a training step has run, the model is in training mode, also
\* when a validation pass came right before it, and the gradients the
\* optimizer update was made from are those of this iteration alone; they stay
\* so until the next step.  Without an optimizer no gradient is ever computed.
C17_TrainModeAndFreshGradients ==
    /\ pc = "iter_completed" => mode = "train"
    /\ (engine.iteration > 0 /\ optimizer # "undefined") => grads = {engine.iteration}
    /\ optimizer = "undefined" => grads = {}

\* the step right after a validation pass has just run
C17_Witness ==
    /\ pc = "iter_completed"
    /\ StepAfterEvaluation
    /\ engine.iteration = 3
    /\ mode = "train"
    /\ grads = {3}

====
